---- MODULE Spec2Model ----
(***************************************************************************)
(* Model of the manifest applier of lambda/k8s-manifest-applier            *)
(* (index-simple.py): apply_manifest, the per-kind read / replace / create *)
(* protocol against the Kubernetes API, and lambda_handler, the batch loop *)
(* that aggregates the per-manifest results into one response.             *)
(*                                                                         *)
(* Every call of the Kubernetes client is one step; the answer of the API  *)
(* server is chosen by the environment among the answers that are possible *)
(* for the current cluster content.                                        *)
(***************************************************************************)
EXTENDS Integers, Sequences, FiniteSets, TLC

\* Longest manifest list download_manifests returns in the model.
MaxBatch == 2

\* The ApiException status that means "no such resource" (e.status == 404).
NotFound == 404

\* Python's None: what dict.get returns for a key that is absent.
NoValue == "None"

\* The kinds apply_manifest has a branch for.
SupportedKinds == {"Namespace", "ConfigMap", "ServiceAccount", "StatefulSet"}

\* The kinds whose branch is read, then replace or create.
NamespacedKinds == {"ConfigMap", "ServiceAccount", "StatefulSet"}

\* The decoded YAML documents the bucket may hold: every kind with and
\* without metadata.name, and a ConfigMap with an explicit namespace.
Documents ==
    [kind : SupportedKinds \cup {"Deployment", NoValue},
     name : {"cfg", NoValue},
     namespace : {NoValue}]
    \cup {[kind |-> "ConfigMap", name |-> "cfg", namespace |-> "app"]}

\* The S3 keys the documents come from.
Files == {"k8s/jenkins/a.yaml"}

\* A manifest as download_manifests yields it: (key, doc).
Manifests == [file : Files, doc : Documents]

RECURSIVE SeqsUpTo(_, _)
SeqsUpTo(S, n) ==
    IF n = 0 THEN {<<>>}
    ELSE LET shorter == SeqsUpTo(S, n - 1)
         IN  shorter \cup {Append(s, x) : s \in {t \in shorter : Len(t) = n - 1}, x \in S}

\* metadata.get('namespace', 'default')
ResolveNamespace(doc) ==
    IF doc.namespace = NoValue THEN "default" ELSE doc.namespace

\* The identity of the resource a document names in the cluster: a Namespace
\* is cluster-scoped, every other kind is qualified by its namespace.
KeyOf(doc) ==
    [kind |-> doc.kind,
     namespace |-> IF doc.kind = "Namespace" THEN "" ELSE ResolveNamespace(doc),
     name |-> doc.name]

\* What a client call returns or raises.
Ok == [type |-> "ok", status |-> 200]
ApiException(s) == [type |-> "ApiException", status |-> s]
OtherException == [type |-> "Exception", status |-> 0]

\* api.read_namespaced_*(name, namespace): the resource if it is there, a
\* 404 ApiException if it is not, or any other failure.
ReadResponses(cl, key) ==
    (IF key \in cl THEN {Ok} ELSE {ApiException(NotFound)})
    \cup {ApiException(403), OtherException}

\* api.replace_namespaced_*(name, namespace, body): success on a resource
\* that is there, a 404 when it was deleted since the read, or another failure.
ReplaceResponses(cl, key) ==
    (IF key \in cl THEN {Ok, ApiException(NotFound)} ELSE {ApiException(NotFound)})
    \cup {ApiException(403), OtherException}

\* api.create_*(body): a 409 conflict when the resource is there, a 422 when
\* the body carries no name, success otherwise, or another failure.
CreateResponses(cl, key) ==
    (IF key \in cl THEN {ApiException(409)}
     ELSE IF key.name = NoValue THEN {ApiException(422)}
     ELSE {Ok})
    \cup {ApiException(403), OtherException}

VARIABLES
    bucket,     \* the manifests the S3 prefix holds, in listing order
    cluster,    \* the resources (kind, namespace, name) the cluster holds
    pc,         \* where lambda_handler / apply_manifest is
    manifests,  \* lambda_handler's manifests
    idx,        \* position of the for loop in manifests (1-based)
    results,    \* lambda_handler's results
    response,   \* what lambda_handler returned
    calls,      \* every call made on the Kubernetes client, in order
    before      \* before[j]: the cluster when apply_manifest was entered for item j

vars == <<bucket, cluster, pc, manifests, idx, results, response, calls, before>>

\* The keys the bucket's documents name.
KeysOf(b) == {KeyOf(b[j].doc) : j \in 1..Len(b)}

\* State of the custom-resource handler of lambda/k8s-applier (index.py).
VARIABLES
    event,           \* the CloudFormation request: RequestType and ResourceProperties
    s3keys,          \* the keys the manifests prefix lists, in listing order
    hpc,             \* where handler / apply_manifests is
    manifest_files,  \* apply_manifests' manifest_files
    todo,            \* what is left of sorted(manifest_files)
    kresults,        \* apply_manifests' results
    runs,            \* every kubectl run, in order
    exc,             \* the exception handler's except clause caught, if any
    pending,         \* the arguments of the send_response call about to be made
    sent,            \* every send_response call, in order
    puts             \* every urlopen(req) of send_response, in order

avars == <<event, s3keys, hpc, manifest_files, todo, kresults, runs, exc,
           pending, sent, puts>>

\* The custom-resource handler is not invoked.
ApplierIdle ==
    /\ event = [RequestType |-> NoValue, hasProperties |-> FALSE]
    /\ s3keys = <<>>
    /\ hpc = "idle"
    /\ manifest_files = <<>>
    /\ todo = <<>>
    /\ kresults = <<>>
    /\ runs = <<>>
    /\ exc = NoValue
    /\ pending = [status |-> NoValue]
    /\ sent = <<>>
    /\ puts = <<>>

\* The handler is entered with some bucket content and some cluster content;
\* only the resources the bucket names matter to the run.
Init ==
    /\ bucket \in SeqsUpTo(Manifests, MaxBatch)
    /\ cluster \in SUBSET {k \in KeysOf(bucket) : k.name # NoValue}
    /\ pc = "get_k8s_client"
    /\ manifests = <<>>
    /\ idx = 0
    /\ results = <<>>
    /\ response = [statusCode |-> 0, body |-> [message |-> ""]]
    /\ calls = <<>>
    /\ before = <<>>
    /\ ApplierIdle

\* Variant of IsNotFound that tests for the conflict status.
IsNotFoundConflict(e) == e.type = "ApiException" /\ e.status = 409

\* Variant of IsNotFound that takes every ApiException for "not found".
IsNotFoundAnyApi(e) == e.type = "ApiException"

\* The except clause around read + replace: "if e.status == 404: create,
\* else: raise". Only an ApiException is caught there.
IsNotFound(e) == e.type = "ApiException" /\ e.status = NotFound

\* Variant of Outcome that takes a 409 on create for "already applied".
OutcomeConflictOk(e) ==
    IF e.type = "ApiException" /\ e.status = 409
    THEN [status |-> "success"]
    ELSE IF e.type = "ApiException"
    THEN [status |-> "failed", error |-> e]
    ELSE [status |-> "error", error |-> e]

\* The outer except clauses: an ApiException gives 'failed', any other
\* exception gives 'error'; both carry str(e).
Outcome(e) ==
    IF e.type = "ApiException"
    THEN [status |-> "failed", error |-> e]
    ELSE [status |-> "error", error |-> e]

Success == [status |-> "success"]

\* {'status': 'skipped', 'reason': f'Unsupported kind: {kind}'}
Skipped(kind) == [status |-> "skipped", reason |-> <<"Unsupported kind: ", kind>>]

\* Variant of Dispatch without the StatefulSet branch.
DispatchNoStatefulSet(kind) ==
    IF kind = "Namespace" THEN "create"
    ELSE IF kind \in {"ConfigMap", "ServiceAccount"} THEN "read"
    ELSE "skip"

\* Variant of Dispatch whose last branch creates instead of skipping.
DispatchDefaultCreate(kind) ==
    IF kind \in NamespacedKinds THEN "read" ELSE "create"

\* The if / elif chain on kind: which call apply_manifest makes first.
Dispatch(kind) ==
    IF kind = "Namespace" THEN "create"
    ELSE IF kind \in NamespacedKinds THEN "read"
    ELSE "skip"

\* The record lambda_handler appends for a manifest and its result.
Record(m, result) ==
    [file |-> m.file, kind |-> m.doc.kind, name |-> m.doc.name] @@ result

\* Variant of FailedOf that counts a skipped manifest as failed.
FailedOfSkipped(rs) ==
    SelectSeq(rs, LAMBDA r : r.status \in {"failed", "error", "skipped"})

\* failed = [r for r in results if r['status'] in ['failed', 'error']]
FailedOf(rs) == SelectSeq(rs, LAMBDA r : r.status \in {"failed", "error"})

\* The manifest the loop is at.
Current == manifests[idx]

\* One entry of the client's call log.
Call(op, key, resp) == [item |-> idx, op |-> op, key |-> key, resp |-> resp]

\* Variant of Return that leaves the loop at the first failed manifest.
ReturnShortCircuit(result) ==
    /\ results' = Append(results, Record(Current, result))
    /\ idx' = idx + 1
    /\ pc' = IF idx = Len(manifests) \/ result.status \in {"failed", "error"}
             THEN "aggregate" ELSE "apply_manifest"

\* apply_manifest returns result: the loop appends the record and moves on
\* to the next manifest, or leaves the loop after the last one.
Return(result) ==
    /\ results' = Append(results, Record(Current, result))
    /\ idx' = idx + 1
    /\ pc' = IF idx = Len(manifests) THEN "aggregate" ELSE "apply_manifest"

\* An exception e raised inside the inner try of a namespaced kind.
InnerExcept(e) ==
    IF IsNotFound(e)
    THEN /\ pc' = "create"
         /\ UNCHANGED <<results, idx>>
    ELSE Return(Outcome(e))

\* The outer except clause of lambda_handler.
ErrorResponse ==
    [statusCode |-> 500,
     body |-> [message |-> "Error applying manifests", error |-> OtherException]]

\* Variant of NoManifestsResponse that reports an empty bucket as an error.
NoManifestsIsError ==
    [statusCode |-> 500, body |-> [message |-> "No manifest files found in S3"]]

\* The return of the "if not manifests" branch.
NoManifestsResponse ==
    [statusCode |-> 200, body |-> [message |-> "No manifest files found in S3"]]

\* k8s_client = get_k8s_client(): an exception there ends the handler in its
\* outer except clause.
GetK8sClient ==
    /\ pc = "get_k8s_client"
    /\ \E ok \in BOOLEAN :
         IF ok
         THEN /\ pc' = "download_manifests"
              /\ UNCHANGED response
         ELSE /\ pc' = "done"
              /\ response' = ErrorResponse
    /\ UNCHANGED <<bucket, cluster, manifests, idx, results, calls, before>>
    /\ UNCHANGED avars

\* manifests = download_manifests(): the documents of the bucket in listing
\* order, or an exception that ends the handler in its outer except clause.
DownloadManifests ==
    /\ pc = "download_manifests"
    /\ \E ok \in BOOLEAN :
         IF ok
         THEN /\ manifests' = bucket
              /\ pc' = "check_manifests"
              /\ UNCHANGED response
         ELSE /\ pc' = "done"
              /\ response' = ErrorResponse
              /\ UNCHANGED manifests
    /\ UNCHANGED <<bucket, cluster, idx, results, calls, before>>
    /\ UNCHANGED avars

\* "if not manifests: return ...", else the for loop starts.
CheckManifests ==
    /\ pc = "check_manifests"
    /\ IF manifests = <<>>
       THEN /\ pc' = "done"
            /\ response' = NoManifestsResponse
            /\ UNCHANGED idx
       ELSE /\ pc' = "apply_manifest"
            /\ idx' = 1
            /\ UNCHANGED response
    /\ UNCHANGED <<bucket, cluster, manifests, results, calls, before>>
    /\ UNCHANGED avars

\* apply_manifest up to its first client call: the fields are read and the
\* kind selects the branch; an unknown kind returns 'skipped' at once.
ApplyManifest ==
    /\ pc = "apply_manifest"
    /\ before' = Append(before, cluster)
    /\ LET kind == Current.doc.kind
       IN  IF Dispatch(kind) = "skip"
           THEN Return(Skipped(kind))
           ELSE /\ pc' = Dispatch(kind)
                /\ UNCHANGED <<results, idx>>
    /\ UNCHANGED <<bucket, cluster, manifests, response, calls>>
    /\ UNCHANGED avars

\* api.read_namespaced_*(name, namespace)
Read ==
    /\ pc = "read"
    /\ LET key == KeyOf(Current.doc)
       IN  \E r \in ReadResponses(cluster, key) :
             /\ calls' = Append(calls, Call("Read", key, r))
             /\ IF r = Ok
                THEN /\ pc' = "replace"
                     /\ UNCHANGED <<results, idx>>
                ELSE InnerExcept(r)
    /\ UNCHANGED <<bucket, cluster, manifests, response, before>>
    /\ UNCHANGED avars

\* api.replace_namespaced_*(name, namespace, body=manifest), still inside
\* the inner try.
Replace ==
    /\ pc = "replace"
    /\ LET key == KeyOf(Current.doc)
       IN  \E r \in ReplaceResponses(cluster, key) :
             /\ calls' = Append(calls, Call("Replace", key, r))
             /\ cluster' = IF r = ApiException(NotFound) THEN cluster \ {key} ELSE cluster
             /\ IF r = Ok
                THEN Return(Success)
                ELSE InnerExcept(r)
    /\ UNCHANGED <<bucket, manifests, response, before>>
    /\ UNCHANGED avars

\* api.create_namespace(body=manifest) and
\* api.create_namespaced_*(namespace, body=manifest)
Create ==
    /\ pc = "create"
    /\ LET key == KeyOf(Current.doc)
       IN  \E r \in CreateResponses(cluster, key) :
             /\ calls' = Append(calls, Call("Create", key, r))
             /\ cluster' = IF r = Ok THEN cluster \cup {key} ELSE cluster
             /\ IF r = Ok
                THEN Return(Success)
                ELSE Return(Outcome(r))
    /\ UNCHANGED <<bucket, manifests, response, before>>
    /\ UNCHANGED avars

\* After the loop: 500 when some result is 'failed' or 'error', else 200.
Aggregate ==
    /\ pc = "aggregate"
    /\ LET failed == FailedOf(results)
       IN  response' =
             IF failed # <<>>
             THEN [statusCode |-> 500,
                   body |-> [message |-> <<Len(failed), " manifest(s) failed to apply">>,
                             results |-> results]]
             ELSE [statusCode |-> 200,
                   body |-> [message |-> <<"Successfully applied ", Len(results), " manifest(s)">>,
                             results |-> results]]
    /\ pc' = "done"
    /\ UNCHANGED <<bucket, cluster, manifests, idx, results, calls, before>>
    /\ UNCHANGED avars

Next ==
    \/ GetK8sClient
    \/ DownloadManifests
    \/ CheckManifests
    \/ ApplyManifest
    \/ Read
    \/ Replace
    \/ Create
    \/ Aggregate

Spec == Init /\ [][Next]_vars

----------------------------------------------------------------------------
(***************************************************************************)
(* The custom-resource handler of lambda/k8s-applier (index.py): handler,  *)
(* apply_manifests and send_response. CloudFormation invokes handler with  *)
(* a request that carries RequestType and the fields send_response reads   *)
(* (StackId, RequestId, LogicalResourceId, ResponseURL), so building the   *)
(* response raises nothing; ResourceProperties is what the stack declares  *)
(* and may lack a property apply_manifests requires.                       *)
(***************************************************************************)

\* Longest listing of the manifests prefix in the model.
MaxKeys == 2

\* The request types handler may be given; "Import" is one it does not know.
RequestTypes == {"Create", "Update", "Delete", "Import"}

\* The keys the prefix may list.
Keys == {"a.yml", "b.yaml", "README.md"}

\* key.endswith('.yaml') or key.endswith('.yml')
IsYaml(key) == key \in {"a.yml", "b.yaml"}

\* The order sorted() puts the local paths in.
Rank(key) == CASE key = "README.md" -> 0 [] key = "a.yml" -> 1 [] key = "b.yaml" -> 2

\* sorted(manifest_files)
RECURSIVE Sorted(_)
Sorted(fs) ==
    IF fs = <<>> THEN <<>>
    ELSE LET rest == Sorted(Tail(fs))
             x == Head(fs)
             lower == SelectSeq(rest, LAMBDA y : Rank(y) <= Rank(x))
             upper == SelectSeq(rest, LAMBDA y : Rank(y) > Rank(x))
         IN  lower \o <<x>> \o upper

\* What subprocess.run(['/opt/bin/kubectl', 'apply', ...], timeout=60) does:
\* it returns with returncode 0 or not 0, or it raises.
KubectlOutcomes == {"returncode 0", "returncode 1", "TimeoutExpired", "OSError"}

InitApplier ==
    /\ event \in [RequestType : RequestTypes, hasProperties : BOOLEAN]
    /\ s3keys \in SeqsUpTo(Keys, MaxKeys)
    /\ hpc = "handler"
    /\ manifest_files = <<>>
    /\ todo = <<>>
    /\ kresults = <<>>
    /\ runs = <<>>
    /\ exc = NoValue
    /\ pending = [status |-> NoValue]
    /\ sent = <<>>
    /\ puts = <<>>
    \* the manifest applier of index-simple.py is not invoked
    /\ bucket = <<>>
    /\ cluster = {}
    /\ pc = "idle"
    /\ manifests = <<>>
    /\ idx = 0
    /\ results = <<>>
    /\ response = [statusCode |-> 0, body |-> [message |-> ""]]
    /\ calls = <<>>
    /\ before = <<>>

\* The call send_response(event, context, status, data) is next.
CallSendResponse(status, data) ==
    /\ pending' = [status |-> status, data |-> data]
    /\ hpc' = "send_response"

\* Variant of Except that logs the exception and sends nothing.
ExceptNoResponse(e) ==
    /\ exc' = e
    /\ hpc' = "done"
    /\ UNCHANGED pending

\* handler's "except Exception as e": send_response(..., 'FAILED', {'Message': str(e)})
Except(e) ==
    /\ exc' = e
    /\ CallSendResponse("FAILED", [Message |-> e])

\* handler up to its first call: request_type selects the branch.
Handler ==
    /\ hpc = "handler"
    /\ LET request_type == event.RequestType
       IN  IF request_type = "Create" \/ request_type = "Update"
           THEN /\ hpc' = "apply_manifests"
                /\ UNCHANGED pending
           ELSE IF request_type = "Delete"
           THEN CallSendResponse("SUCCESS", [Message |-> "Skipped deletion"])
           ELSE CallSendResponse("FAILED",
                                 [Message |-> <<"Unknown request type: ", request_type>>])
    /\ UNCHANGED <<event, s3keys, manifest_files, todo, kresults, runs, exc, sent, puts>>
    /\ UNCHANGED vars

\* apply_manifests up to the S3 listing: the properties are read (KeyError
\* when a required one is missing) and the kubeconfig is written
\* (eks.describe_cluster may raise).
ReadProperties ==
    /\ hpc = "apply_manifests"
    /\ IF ~event.hasProperties
       THEN Except("KeyError")
       ELSE \E ok \in BOOLEAN :
              IF ok
              THEN /\ hpc' = "list_objects"
                   /\ UNCHANGED <<exc, pending>>
              ELSE Except("ClientError")
    /\ UNCHANGED <<event, s3keys, manifest_files, todo, kresults, runs, sent, puts>>
    /\ UNCHANGED vars

\* The listing and download of the manifests, and "if not manifest_files:
\* return {'Message': 'No manifests found'}".
ListObjects ==
    /\ hpc = "list_objects"
    /\ \E ok \in BOOLEAN :
         IF ~ok
         THEN /\ Except("ClientError")
              /\ UNCHANGED <<manifest_files, todo>>
         ELSE LET files == SelectSeq(s3keys, IsYaml)
              IN  /\ manifest_files' = files
                  /\ UNCHANGED exc
                  /\ IF files = <<>>
                     THEN /\ CallSendResponse("SUCCESS", [Message |-> "No manifests found"])
                          /\ UNCHANGED todo
                     ELSE /\ todo' = Sorted(files)
                          /\ hpc' = "kubectl"
                          /\ UNCHANGED pending
    /\ UNCHANGED <<event, s3keys, kresults, runs, sent, puts>>
    /\ UNCHANGED vars

\* One turn of "for manifest in sorted(manifest_files)": kubectl apply on
\* the file; after the last file apply_manifests returns {'Results': results}.
Kubectl ==
    /\ hpc = "kubectl"
    /\ todo # <<>>
    /\ \E out \in KubectlOutcomes :
         /\ runs' = Append(runs, [file |-> Head(todo), outcome |-> out])
         /\ IF out \in {"TimeoutExpired", "OSError"}
            THEN /\ Except(out)
                 /\ UNCHANGED <<todo, kresults>>
            ELSE LET r == IF out = "returncode 0"
                          THEN [file |-> Head(todo), status |-> "success"]
                          ELSE [file |-> Head(todo), status |-> "failed",
                                error |-> "stderr"]
                 IN  /\ kresults' = Append(kresults, r)
                     /\ todo' = Tail(todo)
                     /\ UNCHANGED exc
                     /\ IF Tail(todo) = <<>>
                        THEN CallSendResponse("SUCCESS", [Results |-> Append(kresults, r)])
                        ELSE /\ hpc' = "kubectl"
                             /\ UNCHANGED pending
    /\ UNCHANGED <<event, s3keys, manifest_files, sent, puts>>
    /\ UNCHANGED vars

\* send_response: the body is built and PUT to the ResponseURL; an exception
\* of urlopen is printed, not raised, so the caller goes on to its end.
SendResponse ==
    /\ hpc = "send_response"
    /\ sent' = Append(sent, pending)
    /\ \E delivered \in BOOLEAN :
         puts' = Append(puts, [Status |-> pending.status, delivered |-> delivered])
    /\ hpc' = "done"
    /\ UNCHANGED <<event, s3keys, manifest_files, todo, kresults, runs, exc, pending>>
    /\ UNCHANGED vars

NextApplier ==
    \/ Handler
    \/ ReadProperties
    \/ ListObjects
    \/ Kubectl
    \/ SendResponse

SpecApplier == InitApplier /\ [][NextApplier]_avars

----------------------------------------------------------------------------
\* Vocabulary of the properties.

\* The manifests apply_manifest has returned for.
Completed == 1..Len(results)

\* apply_manifest has just returned for manifest Len(results).
JustReturned == pc \in {"apply_manifest", "aggregate"} /\ Len(results) >= 1

\* The client calls made for manifest j, in order, and their operations.
ItemCalls(j) == SelectSeq(calls, LAMBDA c : c.item = j)
ItemOps(j) == [p \in 1..Len(ItemCalls(j)) |-> ItemCalls(j)[p].op]

Doc(j) == manifests[j].doc

\* The resource of manifest j was in the cluster when apply_manifest was entered.
Existed(j) == KeyOf(Doc(j)) \in before[j]

\* A result lambda_handler counts as failed.
IsFailure(r) == r.status \in {"failed", "error"}

\* The answer of the API server for a resource that is not there.
AnsweredNotFound(r) == r = ApiException(404)

\* The loop has ended and lambda_handler has returned its report.
Reported == pc = "done" /\ "results" \in DOMAIN response.body

\* C1: for ConfigMap, ServiceAccount and StatefulSet, when the resource is
\* already in the cluster and every client call succeeds, the calls made for
\* the manifest are one Read followed by one Replace, with no Create, and the
\* result is 'success'.
C1_ExistingIsReadThenReplace ==
    \A j \in Completed :
        (/\ Doc(j).kind \in NamespacedKinds
         /\ Existed(j)
         /\ \A p \in 1..Len(ItemCalls(j)) : ItemCalls(j)[p].resp = Ok)
        => /\ ItemOps(j) = <<"Read", "Replace">>
           /\ results[j].status = "success"

C1_Witness ==
    \E j \in Completed :
        /\ Doc(j).kind = "StatefulSet"
        /\ Existed(j)
        /\ ItemOps(j) = <<"Read", "Replace">>
        /\ \A p \in 1..Len(ItemCalls(j)) : ItemCalls(j)[p].resp = Ok
        /\ results[j].status = "success"

\* A call answered as the cluster content dictates: success, or not-found
\* on the Read of a resource that is not there.
Faithful(c) == c.resp = Ok \/ (c.op = "Read" /\ AnsweredNotFound(c.resp))

\* C2: for every supported kind, when the named resource is not in the
\* cluster and the client answers without fault, exactly one Create is made
\* (for the namespaced kinds after a Read answered not-found, and no
\* Replace), the result is 'success' and the resource is in the cluster when
\* apply_manifest returns.
C2_AbsentIsCreatedOnce ==
    \A j \in Completed :
        (/\ Doc(j).kind \in SupportedKinds
         /\ Doc(j).name # NoValue
         /\ ~Existed(j)
         /\ \A p \in 1..Len(ItemCalls(j)) : Faithful(ItemCalls(j)[p]))
        => /\ Cardinality({p \in 1..Len(ItemCalls(j)) : ItemOps(j)[p] = "Create"}) = 1
           /\ Doc(j).kind \in NamespacedKinds =>
                /\ ItemOps(j) = <<"Read", "Create">>
                /\ AnsweredNotFound(ItemCalls(j)[1].resp)
           /\ \A p \in 1..Len(ItemCalls(j)) : ItemOps(j)[p] # "Replace"
           /\ results[j].status = "success"
           /\ (JustReturned /\ j = Len(results)) => KeyOf(Doc(j)) \in cluster

C2_Witness ==
    /\ JustReturned
    /\ LET j == Len(results)
       IN  /\ Doc(j).kind = "ServiceAccount"
           /\ ~Existed(j)
           /\ ItemOps(j) = <<"Read", "Create">>
           /\ results[j].status = "success"
           /\ KeyOf(Doc(j)) \in cluster

\* C3: for the namespaced kinds, a Read that fails with anything but
\* not-found gives a failed result that carries the error, the Read is the
\* only call made for the manifest (no Create, no Replace), and the cluster
\* is as it was when apply_manifest was entered.
C3_ReadErrorFailsWithoutWrite ==
    \A j \in Completed :
        (/\ Doc(j).kind \in NamespacedKinds
         /\ ItemCalls(j)[1].resp # Ok
         /\ ~AnsweredNotFound(ItemCalls(j)[1].resp))
        => /\ ItemOps(j) = <<"Read">>
           /\ IsFailure(results[j])
           /\ results[j].error = ItemCalls(j)[1].resp
           /\ ItemCalls(j)[1].resp.type = "ApiException" => results[j].status = "failed"
           /\ (JustReturned /\ j = Len(results)) => cluster = before[j]

C3_Witness ==
    /\ JustReturned
    /\ LET j == Len(results)
       IN  /\ Doc(j).kind = "ConfigMap"
           /\ Existed(j)
           /\ ItemCalls(j)[1].resp = ApiException(403)
           /\ ItemOps(j) = <<"Read">>
           /\ results[j].status = "failed"
           /\ cluster = before[j]

\* C4: whenever a Create or a Replace made for a manifest returns an error,
\* of any kind, that call is the last one made for the manifest and the
\* result is failed with that error: no retry, no other write.
C4_WriteErrorIsFinal ==
    \A j \in Completed :
        \A p \in 1..Len(ItemCalls(j)) :
            (ItemOps(j)[p] \in {"Create", "Replace"} /\ ItemCalls(j)[p].resp # Ok)
            => /\ p = Len(ItemCalls(j))
               /\ IsFailure(results[j])
               /\ results[j].error = ItemCalls(j)[p].resp

\* C5: for a kind apply_manifest has no branch for, no client call is made,
\* the cluster is unchanged, and the result is 'skipped' with a reason that
\* contains the kind.
C5_UnsupportedIsSkipped ==
    \A j \in Completed :
        Doc(j).kind \notin SupportedKinds
        => /\ ItemCalls(j) = <<>>
           /\ results[j].status = "skipped"
           /\ \E p \in 1..Len(results[j].reason) : results[j].reason[p] = Doc(j).kind
           /\ (JustReturned /\ j = Len(results)) => cluster = before[j]

C5_Witness ==
    /\ JustReturned
    /\ LET j == Len(results)
       IN  /\ Doc(j).kind = "Deployment"
           /\ ItemCalls(j) = <<>>
           /\ results[j].status = "skipped"
           /\ cluster = before[j]
           /\ calls # <<>>

C7_StatusIffNoFailure ==
    Reported =>
        /\ response.statusCode \in {200, 500}
        /\ response.statusCode = 200 <=>
             \A j \in 1..Len(response.body.results) :
                 response.body.results[j].status \in {"success", "skipped"}

C7_Witness ==
    /\ Reported
    /\ response.statusCode = 200
    /\ \E j \in Completed : results[j].status = "skipped"

\* C8: when download_manifests returns an empty list, lambda_handler returns
\* 200 with no per-manifest record and without a call to the cluster.
C8_EmptyIsSuccess ==
    [][(pc = "check_manifests" /\ manifests = <<>>)
        => /\ pc' = "done"
           /\ response'.statusCode = 200
           /\ "results" \notin DOMAIN response'.body
           /\ results' = <<>>
           /\ calls' = <<>>
           /\ before' = <<>>
           /\ cluster' = cluster]_vars

C8_Witness ==
    /\ pc = "done"
    /\ bucket = <<>>
    /\ response.statusCode = 200
    /\ results = <<>>
    /\ calls = <<>>

\* C9: a manifest without kind or without metadata.name gets a failed
\* result "missing required field" (not a skipped one) and no client call is
\* made for it.
C9_MalformedFailsAtOnce ==
    \A j \in Completed :
        (Doc(j).kind = NoValue \/ Doc(j).name = NoValue)
        => /\ ItemCalls(j) = <<>>
           /\ results[j].status = "failed"
           /\ results[j].error = "missing required field"

\* C10: for a Namespace the only call is one Create, with no Read before it
\* and no Replace; when the namespace was already there the result is
\* 'failed' with the conflict, never 'success', and the response is 500.
C10_NamespaceCreateOnly ==
    \A j \in Completed :
        Doc(j).kind = "Namespace"
        => /\ ItemOps(j) = <<"Create">>
           /\ Existed(j) =>
                /\ results[j].status # "success"
                /\ IsFailure(results[j])
                /\ ItemCalls(j)[1].resp = ApiException(409) =>
                     /\ results[j].status = "failed"
                     /\ results[j].error = ApiException(409)
                /\ Reported => response.statusCode = 500

C10_Witness ==
    /\ Reported
    /\ response.statusCode = 500
    /\ \E j \in Completed :
         /\ Doc(j).kind = "Namespace"
         /\ Existed(j)
         /\ ItemOps(j) = <<"Create">>
         /\ ItemCalls(j)[1].resp = ApiException(409)
         /\ results[j].status = "failed"
         /\ \A k \in Completed \ {j} : results[k].status = "success"

\* C11: every invocation of the custom-resource handler makes exactly one
\* send_response call, with one PUT, on every path: 'SUCCESS' for Create and
\* Update when apply_manifests returns and for Delete, which applies
\* nothing; 'FAILED' for an unknown request type and for any exception,
\* a kubectl timeout included. No response is sent twice, none is omitted.
C11_ExactlyOneResponse ==
    /\ Len(sent) <= 1
    /\ Len(puts) = Len(sent)
    /\ hpc # "done" => (sent = <<>> /\ ENABLED NextApplier)
    /\ hpc = "done" =>
         /\ Len(sent) = 1
         /\ puts[1].Status = sent[1].status
         /\ sent[1].status \in {"SUCCESS", "FAILED"}
         /\ sent[1].status = "SUCCESS" <=>
              \/ event.RequestType \in {"Create", "Update"} /\ exc = NoValue
              \/ event.RequestType = "Delete"
         /\ event.RequestType \notin {"Create", "Update"} =>
              /\ runs = <<>>
              /\ exc = NoValue
         /\ (\E p \in 1..Len(runs) : runs[p].outcome \in {"TimeoutExpired", "OSError"})
              => /\ exc = runs[Len(runs)].outcome
                 /\ sent[1] = [status |-> "FAILED", data |-> [Message |-> exc]]
         /\ (event.RequestType \in {"Create", "Update"} /\ exc = NoValue) =>
              \/ sent[1].data = [Message |-> "No manifests found"] /\ runs = <<>>
              \/ sent[1].data = [Results |-> kresults] /\ Len(kresults) = Len(runs)

C11_Witness ==
    /\ hpc = "done"
    /\ event.RequestType = "Update"
    /\ Len(runs) = MaxKeys
    /\ runs[1].outcome = "returncode 1"
    /\ runs[MaxKeys].outcome = "TimeoutExpired"
    /\ sent = <<[status |-> "FAILED", data |-> [Message |-> "TimeoutExpired"]]>>
    /\ Len(puts) = 1

====
